---- MODULE Spec2Model ----
(***************************************************************************)
(* Model of the live-transcription pipeline and its WebSocket broadcast    *)
(* server:                                                                 *)
(*   src/realtime_transcribe.py  audio callback, bounded queue, worker     *)
(*   src/transcript_server.py    transcript accumulator, broadcast hub,    *)
(*                               per-connection handler                    *)
(*                                                                         *)
(* Three specifications share the variables and the operators:             *)
(*   Spec      realtime_transcribe run stand-alone (transcript_callback    *)
(*             is None, as in realtime_transcribe.main): audio callback,   *)
(*             queue, worker and the stop flag.                            *)
(*   SpecServ  transcript_server: the same pipeline with                   *)
(*             transcript_callback installed, plus the sessions handled    *)
(*             by the event loop and the publish the callback runs.        *)
(*   SpecFold  transcript_callback applied to arbitrary span texts while   *)
(*             no client is connected (the accumulator as a function).     *)
(*                                                                         *)
(* Text is a sequence of one-character strings; NoneText stands for        *)
(* Python's None.  Frames are numbered in the order the device delivers    *)
(* them.  Time inside one publish is counted in milliseconds.              *)
(***************************************************************************)
EXTENDS Integers, Sequences, FiniteSets, TLC

VARIABLES
    running,          \* realtime_transcribe.running (global stop flag)
    stream_active,    \* the capture stream still invokes audio_callback
    audio_queue,      \* queue.Queue(maxsize=5): frames waiting, head first
    unfinished_tasks, \* queue.Queue's count of put items not yet task_done
    next_frame,       \* number of the next frame the device will deliver
    cb_result,        \* audio_callback: "pending" between its read of the
                      \* flag and its put, else how the last call ended
    wpc,              \* position of process_audio_worker
    audio_chunk,      \* the worker's local audio_chunk (0: none)
    fed,              \* frames passed to online.insert_audio_chunk, in order
    accepted,         \* history: frames put_nowait stored, in order
    dropped,          \* history: frames put_nowait rejected (queue.Full)
    has_callback,     \* transcript_callback is not None
    full_transcript,  \* transcript_server.full_transcript
    update_count,     \* transcript_server._update_count
    broadcasts,       \* history: calls of broadcast_full_transcript so far
    broadcast_text,   \* history: full_text argument of the latest call
    folded,           \* history: texts transcript_callback was called with
    connections,      \* transcript_server.connections
    hpc,              \* per session: position of its handle_client
    sent,             \* per live session: messages written to it, in order
    pub,              \* the broadcast_full_transcript call in progress
    message,          \* per session: handle_client's local `message`
    received,         \* history, per session: client messages received
    mpc,              \* position of the thread that runs realtime_transcribe
    finished,         \* history: calls of online.finish() so far
    final_text,       \* the text online.finish() returned (final_result[2])
    stop_event,       \* transcript_server.main: stop_event is set
    spc,              \* position of transcript_server.main
    open_at_stop,     \* history: sessions open when shutdown was requested
    server_closed,    \* history: sessions closed by the server's shutdown
    output_fh,        \* the output file: "none", "open" (opened by the
                      \* pipeline from a path) or "closed"
    written           \* history: records written to output_fh

pipe_vars == <<running, stream_active, audio_queue, unfinished_tasks,
               next_frame, cb_result, wpc, audio_chunk, fed, accepted,
               dropped, has_callback>>
acc_vars  == <<full_transcript, update_count, broadcasts, broadcast_text,
               folded>>
hub_vars  == <<connections, hpc, sent, pub>>
msg_vars  == <<message, received>>
stop_vars == <<finished, final_text, stop_event, spc, open_at_stop,
               server_closed>>
out_vars  == <<output_fh, written>>
shut_vars == <<mpc, stop_vars, out_vars>>
ext_vars  == <<msg_vars, shut_vars>>
vars      == <<pipe_vars, acc_vars, hub_vars, ext_vars>>

----------------------------------------------------------------------------
(* Bounds of the model *)

\* frames the device delivers in a stand-alone run (Spec)
MaxFrames == 7
\* frames the device delivers in a server run (SpecServ)
MaxServFrames == 2
\* sessions that connect in a server run
MaxSessions == 2
\* length of a span text given to transcript_callback in SpecFold
MaxSpanLen == 2
\* calls of transcript_callback in SpecFold
MaxSpans == 3
\* frames the device delivers in a run of SpecSess or SpecShut
MaxSessFrames == 1
\* client messages received in a run of SpecSess
MaxMsgs == 2
\* sessions that connect in a run of SpecSess or SpecShut
MaxTalkers == 1
\* frames the device delivers in a run of SpecStop
MaxStopFrames == 3

(* Program constants *)

\* queue.Queue(maxsize=5)
maxsize == 5
\* asyncio.wait_for(task, timeout=0.1), in milliseconds
SendTimeoutMs == 100

----------------------------------------------------------------------------
(* Text *)

Chars     == {"a", " "}
NoneText  == <<"None">>
Space     == <<" ">>

\* str.isspace for one character
IsSpace(c) == c = " "

Truthy_any(text) == TRUE

\* Python truthiness of a text value: None and "" are false
Truthy(text) == text # NoneText /\ text # <<>>

RECURSIVE lstrip(_)
lstrip(s) == IF s # <<>> /\ IsSpace(Head(s)) THEN lstrip(Tail(s)) ELSE s

RECURSIVE rstrip(_)
rstrip(s) == IF s # <<>> /\ IsSpace(s[Len(s)])
             THEN rstrip(SubSeq(s, 1, Len(s) - 1)) ELSE s

\* str.strip()
strip(s) == rstrip(lstrip(s))

IsPrefix(a, b) == Len(a) <= Len(b) /\ SubSeq(b, 1, Len(a)) = a

IsSuffix(a, b) ==
    Len(a) <= Len(b) /\ SubSeq(b, Len(b) - Len(a) + 1, Len(b)) = a

\* every text over Chars of length at most n
TextsUpTo(n) == UNION {[1..k -> Chars] : k \in 0..n}

Max(a, b) == IF a >= b THEN a ELSE b

\* the sum of a function from 1..n to numbers
RECURSIVE SumTo(_, _)
SumTo(f, n) == IF n = 0 THEN 0 ELSE f[n] + SumTo(f, n - 1)

Total(f) == SumTo(f, Cardinality(DOMAIN f))

----------------------------------------------------------------------------
(* queue.Queue, as audio_callback and process_audio_worker use it *)

\* Queue.full(): maxsize > 0 and qsize() >= maxsize
Full(q) == maxsize > 0 /\ Len(q) >= maxsize

put_nowait_unbounded(q, frame) == [raised |-> FALSE, q |-> Append(q, frame)]

put_nowait_drop_oldest(q, frame) ==
    IF Full(q) THEN [raised |-> FALSE, q |-> Append(Tail(q), frame)]
    ELSE [raised |-> FALSE, q |-> Append(q, frame)]

\* Queue.put_nowait(frame): raises queue.Full and stores nothing when the
\* queue is full, otherwise appends the frame at the tail
put_nowait(q, frame) ==
    IF Full(q) THEN [raised |-> TRUE, q |-> q]
    ELSE [raised |-> FALSE, q |-> Append(q, frame)]

get_lifo(q) == [item |-> q[Len(q)], q |-> SubSeq(q, 1, Len(q) - 1)]

\* Queue.get on a non-empty queue: removes and returns the head
get(q) == [item |-> Head(q), q |-> Tail(q)]

----------------------------------------------------------------------------
(* realtime_transcribe: audio_callback, the stop flag, the worker *)

AudioCallback_nocheck(limit) ==
    /\ stream_active
    /\ cb_result # "pending"
    /\ next_frame <= limit
    /\ cb_result' = "pending"
    /\ UNCHANGED <<stream_active, next_frame>>
    /\ UNCHANGED <<running, audio_queue, unfinished_tasks, wpc, audio_chunk,
                   fed, accepted, dropped, has_callback>>
    /\ UNCHANGED <<acc_vars, hub_vars>>
    /\ UNCHANGED ext_vars

\* The capture stream invokes audio_callback, which reads the stop flag:
\* `if not running: raise sd.CallbackStop` (pyaudio: return paComplete),
\* else the frame is converted and the callback goes on to put it.  The
\* callback runs on the audio library's thread, so other threads take
\* steps between the read of the flag and the put.  `limit` bounds the
\* number of frames the device delivers in the run.
AudioCallback(limit) ==
    /\ stream_active
    /\ cb_result # "pending"
    /\ next_frame <= limit
    /\ IF ~running
       THEN /\ stream_active' = FALSE
            /\ cb_result' = "stop"
            /\ next_frame' = next_frame + 1
       ELSE /\ cb_result' = "pending"
            /\ UNCHANGED <<stream_active, next_frame>>
    /\ UNCHANGED <<running, audio_queue, unfinished_tasks, wpc, audio_chunk,
                   fed, accepted, dropped, has_callback>>
    /\ UNCHANGED <<acc_vars, hub_vars>>
    /\ UNCHANGED ext_vars

\* audio_queue.put_nowait(audio_chunk); except queue.Full: pass; the
\* callback returns and the stream goes on
CallbackPut ==
    /\ stream_active
    /\ cb_result = "pending"
    /\ LET r == put_nowait(audio_queue, next_frame) IN
       /\ audio_queue' = r.q
       /\ unfinished_tasks' =
              IF r.raised THEN unfinished_tasks ELSE unfinished_tasks + 1
       /\ accepted' = IF r.raised THEN accepted
                      ELSE Append(accepted, next_frame)
       /\ dropped' = IF r.raised THEN dropped \cup {next_frame}
                     ELSE dropped
    /\ next_frame' = next_frame + 1
    /\ cb_result' = "continue"
    /\ UNCHANGED <<running, stream_active, wpc, audio_chunk, fed,
                   has_callback>>
    /\ UNCHANGED <<acc_vars, hub_vars>>
    /\ UNCHANGED ext_vars

SignalStop_toggle ==
    /\ running' = ~running
    /\ UNCHANGED <<stream_active, audio_queue, unfinished_tasks, next_frame,
                   cb_result, wpc, audio_chunk, fed, accepted, dropped,
                   has_callback>>
    /\ UNCHANGED <<acc_vars, hub_vars>>
    /\ UNCHANGED ext_vars

\* signal_handler / shutdown_handler: running = False
SignalStop ==
    /\ running' = FALSE
    /\ UNCHANGED <<stream_active, audio_queue, unfinished_tasks, next_frame,
                   cb_result, wpc, audio_chunk, fed, accepted, dropped,
                   has_callback>>
    /\ UNCHANGED <<acc_vars, hub_vars>>
    /\ UNCHANGED ext_vars

\* while running or not audio_queue.empty():
WorkerLoop ==
    /\ wpc = "loop"
    /\ wpc' = IF running \/ audio_queue # <<>> THEN "get" ELSE "exit"
    /\ UNCHANGED <<running, stream_active, audio_queue, unfinished_tasks,
                   next_frame, cb_result, audio_chunk, fed, accepted, dropped,
                   has_callback>>
    /\ UNCHANGED <<acc_vars, hub_vars>>
    /\ UNCHANGED ext_vars

\* audio_chunk = audio_queue.get(timeout=0.1); except queue.Empty: continue
WorkerGet ==
    /\ wpc = "get"
    /\ IF audio_queue # <<>>
       THEN /\ audio_chunk' = get(audio_queue).item
            /\ audio_queue' = get(audio_queue).q
            /\ wpc' = "process"
       ELSE /\ wpc' = "loop"
            /\ UNCHANGED <<audio_chunk, audio_queue>>
    /\ UNCHANGED <<running, stream_active, unfinished_tasks, next_frame,
                   cb_result, fed, accepted, dropped, has_callback>>
    /\ UNCHANGED <<acc_vars, hub_vars>>
    /\ UNCHANGED ext_vars

\* audio_queue.task_done()
WorkerTaskDone ==
    /\ wpc = "task_done"
    /\ unfinished_tasks' = unfinished_tasks - 1
    /\ audio_chunk' = 0
    /\ wpc' = "loop"
    /\ UNCHANGED <<running, stream_active, audio_queue, next_frame, cb_result,
                   fed, accepted, dropped, has_callback>>
    /\ UNCHANGED <<acc_vars, hub_vars>>
    /\ UNCHANGED ext_vars

----------------------------------------------------------------------------
(* transcript_server: the accumulator *)

NewText_nostrip(text) == IF Truthy(text) THEN text ELSE <<>>

\* new_text = text.strip() if text else ""
NewText(text) == IF Truthy(text) THEN strip(text) ELSE <<>>

Accumulate_replace(full, new_text) == new_text

Accumulate_nosep(full, new_text) ==
    IF full # <<>> THEN strip(full \o new_text) ELSE new_text

\* if full_transcript: (full_transcript + " " + new_text).strip()
\* else: new_text
Accumulate(full, new_text) ==
    IF full # <<>> THEN strip(full \o Space \o new_text) ELSE new_text

BroadcastArg_diff(full, new_text) == new_text

\* the argument of broadcast_full_transcript(full_transcript)
BroadcastArg(full, new_text) == full

----------------------------------------------------------------------------
(* transcript_server: broadcast_full_transcript *)

Sessions == 1..MaxSessions

\* completion times of a send, in ms after its task was created: at once,
\* or later than one timeout
SendDelays == {0, 150}

\* what becomes of one connection.send(message) task: the peer accepts the
\* data after `delay`, the send raises after `delay`, or the peer never
\* accepts the data
SendFates == [kind : {"accepts"}, delay : SendDelays]
                 \cup {[kind |-> "raises", delay |-> 0],
                       [kind |-> "never", delay |-> 0]}

IdlePub == [phase |-> "idle", text |-> <<>>, targets |-> {}, fate |-> <<>>,
            delivered |-> {}, disconnected |-> {}, elapsed |-> 0]

Greeting == [type |-> "connected"]
Transcript(text) == [type |-> "transcript", mode |-> "full", text |-> text]

WaitFor_notimeout(t, fate) ==
    IF fate.kind = "never"
    THEN [outcome |-> "timeout", elapsed |-> t + SendTimeoutMs]
    ELSE [outcome |-> IF fate.kind = "accepts" THEN "sent" ELSE "error",
          elapsed |-> Max(t, fate.delay)]

\* await asyncio.wait_for(task, timeout=0.1), started t ms after the tasks
\* were created: the task's result if it is done before the deadline,
\* otherwise TimeoutError (the task is cancelled)
WaitFor(t, fate) ==
    IF fate.kind = "never" \/ fate.delay >= t + SendTimeoutMs
    THEN [outcome |-> "timeout", elapsed |-> t + SendTimeoutMs]
    ELSE [outcome |-> IF fate.kind = "accepts" THEN "sent" ELSE "error",
          elapsed |-> Max(t, fate.delay)]

\* for conn in disconnected: connections.discard(conn)
Remove(conns, disconnected) == conns \ disconnected

BeginPublish_noguard(full_text) ==
    pub' = [phase |-> "iter", text |-> full_text,
            targets |-> connections, fate |-> <<>>,
            delivered |-> {}, disconnected |-> {}, elapsed |-> 0]

\* broadcast_full_transcript up to the loop over connections: nothing when
\* there are no connections, otherwise the message is built and the
\* iteration starts on the set as it is now
BeginPublish(full_text) ==
    IF connections = {}
    THEN pub' = pub
    ELSE pub' = [phase |-> "iter", text |-> full_text,
                 targets |-> connections, fate |-> <<>>,
                 delivered |-> {}, disconnected |-> {}, elapsed |-> 0]

\* the fold is made only when somebody is connected
TranscriptCallback_connected(text) ==
    LET new_text == NewText(text) IN
    /\ folded' = Append(folded, text)
    /\ IF new_text = <<>> \/ connections = {}
       THEN UNCHANGED <<full_transcript, update_count, broadcasts,
                        broadcast_text, pub>>
       ELSE /\ full_transcript' = Accumulate(full_transcript, new_text)
            /\ update_count' = update_count + 1
            /\ broadcasts' = broadcasts + 1
            /\ broadcast_text' = BroadcastArg(full_transcript', new_text)
            /\ BeginPublish(BroadcastArg(full_transcript', new_text))

\* transcript_callback(start_time, end_time, text), run by a thread that has
\* no event loop: asyncio.get_event_loop() raises RuntimeError there, so the
\* broadcast runs under asyncio.run and the caller waits for its end
TranscriptCallback(text) ==
    LET new_text == NewText(text) IN
    /\ folded' = Append(folded, text)
    /\ IF new_text = <<>>
       THEN UNCHANGED <<full_transcript, update_count, broadcasts,
                        broadcast_text, pub>>
       ELSE /\ full_transcript' = Accumulate(full_transcript, new_text)
            /\ update_count' = update_count + 1
            /\ broadcasts' = broadcasts + 1
            /\ broadcast_text' = BroadcastArg(full_transcript', new_text)
            /\ BeginPublish(BroadcastArg(full_transcript', new_text))

\* the peer accepts the data within the timeout of one wait_for
Prompt(fate) == fate.kind = "accepts" /\ fate.delay < SendTimeoutMs

\* asyncio.run returns (or raises) to the caller of transcript_callback:
\* the worker, which goes on to task_done, or the final callback made
\* after online.finish()
ReturnToCaller ==
    IF mpc = "final_publish"
    THEN mpc' = "close" /\ UNCHANGED wpc
    ELSE wpc' = "task_done" /\ UNCHANGED mpc

\* The connections a completed `for connection in connections` has visited
\* when the set was `before` at its start and is `now` at its end: the
\* event loop thread may have added and discarded members meanwhile, and
\* such a member may or may not have been visited.
Visited(before, now) ==
    {T \in SUBSET (before \cup now) : (before \cap now) \subseteq T}

\* the RuntimeError of the iteration is not caught and ends the worker
PublishIter_uncaught ==
    /\ pub.phase = "iter"
    /\ IF Cardinality(connections) # Cardinality(pub.targets)
       THEN /\ pub' = IdlePub
            /\ wpc' = "exit"
            /\ UNCHANGED mpc
       ELSE /\ \E T \in Visited(pub.targets, connections) :
                  pub' = [pub EXCEPT !.phase = "wait", !.targets = T]
            /\ UNCHANGED <<wpc, mpc>>
    /\ UNCHANGED <<connections, hpc, sent>>
    /\ UNCHANGED <<running, stream_active, audio_queue, unfinished_tasks,
                   next_frame, cb_result, audio_chunk, fed, accepted, dropped,
                   has_callback>>
    /\ UNCHANGED acc_vars
    /\ UNCHANGED <<msg_vars, stop_vars, out_vars>>

\* for connection in connections: create_task(connection.send(message)).
\* The set belongs to the event loop thread, which registers and
\* unregisters sessions while this thread iterates: when the set's size
\* has changed the iterator raises RuntimeError (Set changed size during
\* iteration), which ends the broadcast, leaves asyncio.run and
\* transcript_callback and is caught by the worker.
PublishIter ==
    /\ pub.phase = "iter"
    /\ IF Cardinality(connections) # Cardinality(pub.targets)
       THEN /\ pub' = IdlePub
            /\ ReturnToCaller
       ELSE /\ \E T \in Visited(pub.targets, connections) :
                  pub' = [pub EXCEPT !.phase = "wait", !.targets = T]
            /\ UNCHANGED <<wpc, mpc>>
    /\ UNCHANGED <<connections, hpc, sent>>
    /\ UNCHANGED <<running, stream_active, audio_queue, unfinished_tasks,
                   next_frame, cb_result, audio_chunk, fed, accepted, dropped,
                   has_callback>>
    /\ UNCHANGED acc_vars
    /\ UNCHANGED <<msg_vars, stop_vars, out_vars>>

\* the fates a send to s can meet: a send on a connection whose handler has
\* ended raises ConnectionClosed
FatesOf(s) == IF hpc[s] = "closed"
              THEN {[kind |-> "raises", delay |-> 0]} ELSE SendFates

\* every order in which the loop can visit the connections of S
Orders(S) == {o \in [1..Cardinality(S) -> S] :
                 \A i, j \in 1..Cardinality(S) : i # j => o[i] # o[j]}

\* for connection, task in send_tasks: await wait_for(task), visiting the
\* connections in `order`, the send to s meeting f[s]; r is the state of
\* the loop: time elapsed, sends that succeeded, the set disconnected
RECURSIVE WaitLoop(_, _, _)
WaitLoop(order, f, r) ==
    IF order = <<>> THEN r
    ELSE LET s == Head(order)
             w == WaitFor(r.elapsed, f[s])
         IN  WaitLoop(Tail(order), f,
                 [elapsed |-> w.elapsed,
                  delivered |-> IF w.outcome = "sent"
                                THEN r.delivered \cup {s} ELSE r.delivered,
                  disconnected |-> IF w.outcome = "sent" THEN r.disconnected
                                   ELSE r.disconnected \cup {s}])

\* the loop over send_tasks, all its wait_for calls.  The tasks were created
\* together and run concurrently; set iteration order is arbitrary.
\* pub.fate records what each send met.
PublishWait ==
    /\ pub.phase = "wait"
    /\ \E order \in Orders(pub.targets) :
       \E f \in [pub.targets -> SendFates] :
          /\ \A s \in pub.targets : f[s] \in FatesOf(s)
          /\ LET r == WaitLoop(order, f, [elapsed |-> 0, delivered |-> {},
                                          disconnected |-> {}])
             IN /\ pub' = [pub EXCEPT
                             !.phase = "remove",
                             !.elapsed = r.elapsed,
                             !.fate = f,
                             !.delivered = r.delivered,
                             !.disconnected = r.disconnected]
                /\ sent' = [s \in Sessions |->
                              IF s \in r.delivered
                              THEN Append(sent[s], Transcript(pub.text))
                              ELSE sent[s]]
    /\ UNCHANGED <<connections, hpc>>
    /\ UNCHANGED <<pipe_vars, acc_vars>>
    /\ UNCHANGED ext_vars

\* the end of broadcast_full_transcript: disconnected clients are removed
\* and asyncio.run returns to the worker
PublishEnd ==
    /\ pub.phase = "remove"
    /\ connections' = Remove(connections, pub.disconnected)
    /\ pub' = IdlePub
    /\ ReturnToCaller
    /\ UNCHANGED <<hpc, sent>>
    /\ UNCHANGED <<running, stream_active, audio_queue, unfinished_tasks,
                   next_frame, cb_result, audio_chunk, fed, accepted, dropped,
                   has_callback>>
    /\ UNCHANGED acc_vars
    /\ UNCHANGED <<msg_vars, stop_vars, out_vars>>

----------------------------------------------------------------------------
(* process_audio_worker: one frame through the engine *)

\* span texts the engine commits in a run of the pipeline: nothing new, or
\* one word
EngineTexts == {<<>>, <<"a">>}

\* what insert_audio_chunk followed by process_iter does for one frame:
\* an exception, or a result (start, end, text)
EngineResults == {[raises |-> TRUE, text |-> <<>>]}
                     \cup {[raises |-> FALSE, text |-> t] : t \in EngineTexts}

\* the engine raises
Raise == [raises |-> TRUE, text |-> <<>>]

\* output_fh.write(...); output_fh.flush(), made when there is an output
\* file: one record more
Write(fh, n) == IF fh = "open" THEN n + 1 ELSE n

\* the exception of the inner try escapes and task_done is skipped
WorkerProcessWith_escape(r) ==
    /\ wpc = "process"
    /\ fed' = Append(fed, audio_chunk)
    /\ written' = IF ~r.raises /\ Truthy(r.text)
                  THEN Write(output_fh, written) ELSE written
    /\ IF ~r.raises /\ Truthy(r.text) /\ has_callback
       THEN /\ TranscriptCallback(r.text)
            /\ wpc' = IF pub'.phase # "idle" THEN "publishing"
                      ELSE "task_done"
       ELSE /\ wpc' = IF r.raises THEN "loop" ELSE "task_done"
            /\ UNCHANGED <<acc_vars, pub>>
    /\ UNCHANGED <<running, stream_active, audio_queue, unfinished_tasks,
                   next_frame, cb_result, audio_chunk, accepted, dropped,
                   has_callback>>
    /\ UNCHANGED <<connections, hpc, sent>>
    /\ UNCHANGED <<msg_vars, mpc, stop_vars, output_fh>>

\* online.insert_audio_chunk(audio_chunk); result = online.process_iter();
\* if result[2]: transcript_callback(...) if there is one, then the record
\* is written to the output file if there is one; an exception of
\* the engine is caught by `except Exception as e: print(...)`, after which
\* audio_queue.task_done() follows as for any frame.  r is what the engine
\* does for this frame.
WorkerProcessWith(r) ==
    /\ wpc = "process"
    /\ fed' = Append(fed, audio_chunk)
    /\ written' = IF ~r.raises /\ Truthy(r.text)
                  THEN Write(output_fh, written) ELSE written
    /\ IF ~r.raises /\ Truthy(r.text) /\ has_callback
       THEN /\ TranscriptCallback(r.text)
            /\ wpc' = IF pub'.phase # "idle" THEN "publishing"
                      ELSE "task_done"
       ELSE /\ wpc' = "task_done"
            /\ UNCHANGED <<acc_vars, pub>>
    /\ UNCHANGED <<running, stream_active, audio_queue, unfinished_tasks,
                   next_frame, cb_result, audio_chunk, accepted, dropped,
                   has_callback>>
    /\ UNCHANGED <<connections, hpc, sent>>
    /\ UNCHANGED <<msg_vars, mpc, stop_vars, output_fh>>

WorkerProcess == \E r \in EngineResults : WorkerProcessWith(r)

----------------------------------------------------------------------------
(* transcript_server: handle_client, run by the server's event loop *)

\* the client messages a session can receive: JSON objects with a type,
\* valid JSON that is not an object, and text that is not JSON
NoMsg == [json |-> "none", type |-> "none"]
ClientMessages ==
    {[json |-> "object", type |-> "ping"],
     [json |-> "object", type |-> "other"],
     [json |-> "list", type |-> "none"],
     [json |-> "invalid", type |-> "none"]}

Pong == [type |-> "pong"]

\* json.loads(message): JSONDecodeError on text that is not JSON
loads(m) == IF m.json = "invalid"
            THEN [raises |-> "JSONDecodeError", data |-> NoMsg]
            ELSE [raises |-> "no", data |-> m]

\* data.get('type'): only a dict has get, anything else raises
\* AttributeError
GetType(data) == IF data.json = "object"
                 THEN [raises |-> "no", type |-> data.type]
                 ELSE [raises |-> "AttributeError", type |-> "none"]

IsPing_any(type) == TRUE

IsPing_never(type) == FALSE

\* data.get('type') == 'ping'
IsPing(type) == type = "ping"

\* what the body of `async for message in websocket` does with message m,
\* up to the await of the pong's send: "pong" (reply), "ignore" (next
\* message), or "end" (an exception other than JSONDecodeError leaves the
\* loop)
Handle(m) ==
    LET l == loads(m) IN
    IF l.raises # "no" THEN "ignore"
    ELSE LET g == GetType(l.data) IN
         IF g.raises # "no" THEN "end"
         ELSE IF IsPing(g.type) THEN "pong" ELSE "ignore"

\* await register(websocket), up to the await of the greeting's send.
\* Sessions are numbered in the order in which they connect.
Connect(s) ==
    /\ hpc[s] = "new"
    /\ \A r \in Sessions : r < s => hpc[r] # "new"
    /\ connections' = connections \cup {s}
    /\ hpc' = [hpc EXCEPT ![s] = "greet"]
    /\ UNCHANGED <<sent, pub>>
    /\ UNCHANGED <<pipe_vars, acc_vars>>
    /\ UNCHANGED ext_vars

Greet_twice(s) ==
    /\ hpc[s] = "greet"
    /\ sent' = [sent EXCEPT ![s] = Append(Append(@, Greeting), Greeting)]
    /\ hpc' = [hpc EXCEPT ![s] = "open"]
    /\ UNCHANGED <<connections, pub>>
    /\ UNCHANGED <<pipe_vars, acc_vars>>
    /\ UNCHANGED ext_vars

\* await websocket.send(connected); when the send raises, the handler ends
\* through finally: await unregister(websocket)
Greet(s) ==
    /\ hpc[s] = "greet"
    /\ \E ok \in BOOLEAN :
          IF ok
          THEN /\ sent' = [sent EXCEPT ![s] = Append(@, Greeting)]
               /\ hpc' = [hpc EXCEPT ![s] = "open"]
               /\ UNCHANGED connections
          ELSE /\ hpc' = [hpc EXCEPT ![s] = "closed"]
               /\ connections' = connections \ {s}
               /\ sent' = [sent EXCEPT ![s] = <<>>]
    /\ UNCHANGED pub
    /\ UNCHANGED <<pipe_vars, acc_vars>>
    /\ UNCHANGED ext_vars

RemoteClose_registered(s) ==
    /\ hpc[s] = "open"
    /\ hpc' = [hpc EXCEPT ![s] = "closed"]
    /\ sent' = [sent EXCEPT ![s] = <<>>]
    /\ message' = [message EXCEPT ![s] = NoMsg]
    /\ UNCHANGED <<connections, pub, received>>
    /\ UNCHANGED <<pipe_vars, acc_vars, shut_vars>>

\* the peer closes: `async for message in websocket` ends and the handler
\* leaves through finally: await unregister(websocket)
RemoteClose(s) ==
    /\ hpc[s] = "open"
    /\ hpc' = [hpc EXCEPT ![s] = "closed"]
    /\ connections' = connections \ {s}
    /\ sent' = [sent EXCEPT ![s] = <<>>]
    /\ message' = [message EXCEPT ![s] = NoMsg]
    /\ UNCHANGED <<pub, received>>
    /\ UNCHANGED <<pipe_vars, acc_vars, shut_vars>>

\* one message arrives on session s and the loop body runs up to its
\* first await (`bound` limits the messages of a run)
Receive(s, bound) ==
    /\ hpc[s] = "open"
    /\ Total(received) < bound
    /\ received' = [received EXCEPT ![s] = @ + 1]
    /\ \E m \in ClientMessages :
          LET h == Handle(m) IN
          /\ message' = [message EXCEPT ![s] = IF h = "end" THEN NoMsg ELSE m]
          /\ hpc' = [hpc EXCEPT ![s] = CASE h = "pong" -> "pong"
                                          [] h = "end" -> "closed"
                                          [] OTHER -> "open"]
          \* except Exception: print; finally: await unregister(websocket)
          /\ connections' = IF h = "end" THEN connections \ {s}
                            ELSE connections
          /\ sent' = IF h = "end" THEN [sent EXCEPT ![s] = <<>>] ELSE sent
    /\ UNCHANGED pub
    /\ UNCHANGED <<pipe_vars, acc_vars, shut_vars>>

\* await websocket.send(pong); when the send raises, the handler ends
\* through finally: await unregister(websocket)
SendPong(s) ==
    /\ hpc[s] = "pong"
    /\ \E ok \in BOOLEAN :
          IF ok
          THEN /\ sent' = [sent EXCEPT ![s] = Append(@, Pong)]
               /\ hpc' = [hpc EXCEPT ![s] = "open"]
               /\ UNCHANGED <<connections, message>>
          ELSE /\ hpc' = [hpc EXCEPT ![s] = "closed"]
               /\ connections' = connections \ {s}
               /\ sent' = [sent EXCEPT ![s] = <<>>]
               /\ message' = [message EXCEPT ![s] = NoMsg]
    /\ UNCHANGED <<pub, received>>
    /\ UNCHANGED <<pipe_vars, acc_vars, shut_vars>>

----------------------------------------------------------------------------
(* realtime_transcribe_sounddevice: the thread that called it *)

\* `while running: sd.sleep(100)` ends and the `with sd.InputStream` block
\* is left: the stream is stopped and closed, which waits for a callback
\* that is running to return
StreamExit ==
    /\ mpc = "stream"
    /\ ~running
    /\ cb_result # "pending"
    /\ stream_active' = FALSE
    /\ mpc' = "join"
    /\ UNCHANGED <<running, audio_queue, unfinished_tasks, next_frame,
                   cb_result, wpc, audio_chunk, fed, accepted, dropped,
                   has_callback>>
    /\ UNCHANGED <<acc_vars, hub_vars, msg_vars, stop_vars, out_vars>>

\* the failed stream is not closed and goes on invoking the callback
StreamError_open ==
    /\ mpc = "stream"
    /\ mpc' = "join"
    /\ UNCHANGED <<running, stream_active, audio_queue, unfinished_tasks,
                   next_frame, cb_result, wpc, audio_chunk, fed, accepted,
                   dropped, has_callback>>
    /\ UNCHANGED <<acc_vars, hub_vars, msg_vars, stop_vars, out_vars>>

\* sd.InputStream raises, at open or while the stream runs: except
\* Exception prints the error and the finally block runs
StreamError ==
    /\ mpc = "stream"
    /\ cb_result # "pending"
    /\ stream_active' = FALSE
    /\ mpc' = "join"
    /\ UNCHANGED <<running, audio_queue, unfinished_tasks, next_frame,
                   cb_result, wpc, audio_chunk, fed, accepted, dropped,
                   has_callback>>
    /\ UNCHANGED <<acc_vars, hub_vars, msg_vars, stop_vars, out_vars>>

MainJoin_nowait ==
    /\ mpc = "join"
    /\ mpc' = "finish"
    /\ UNCHANGED <<running, stream_active, audio_queue, unfinished_tasks,
                   next_frame, cb_result, wpc, audio_chunk, fed, accepted,
                   dropped, has_callback>>
    /\ UNCHANGED <<acc_vars, hub_vars, msg_vars, stop_vars, out_vars>>

\* audio_queue.join(): returns once every frame put has been task_done
MainJoin ==
    /\ mpc = "join"
    /\ unfinished_tasks = 0
    /\ mpc' = "finish"
    /\ UNCHANGED <<running, stream_active, audio_queue, unfinished_tasks,
                   next_frame, cb_result, wpc, audio_chunk, fed, accepted,
                   dropped, has_callback>>
    /\ UNCHANGED <<acc_vars, hub_vars, msg_vars, stop_vars, out_vars>>

\* the exception of finish leaves the function
MainFinishWith_reraise(r) ==
    /\ mpc = "finish"
    /\ finished' = finished + 1
    /\ final_text' = r.text
    /\ written' = IF ~r.raises /\ Truthy(r.text)
                  THEN Write(output_fh, written) ELSE written
    /\ IF ~r.raises /\ Truthy(r.text) /\ has_callback
       THEN /\ TranscriptCallback(r.text)
            /\ mpc' = IF pub'.phase # "idle" THEN "final_publish"
                      ELSE "close"
       ELSE /\ mpc' = IF r.raises THEN "raised" ELSE "close"
            /\ UNCHANGED <<acc_vars, pub>>
    /\ UNCHANGED pipe_vars
    /\ UNCHANGED <<connections, hpc, sent>>
    /\ UNCHANGED <<msg_vars, stop_event, spc, open_at_stop, server_closed,
                   output_fh>>

\* final_result = online.finish(); if final_result[2]: transcript_callback
\* if there is one, then the record of the final text is written; an
\* exception of finish is caught by `except Exception as e: print(...)`.
\* r is what the engine does.
MainFinishWith(r) ==
    /\ mpc = "finish"
    /\ finished' = finished + 1
    /\ final_text' = r.text
    /\ written' = IF ~r.raises /\ Truthy(r.text)
                  THEN Write(output_fh, written) ELSE written
    /\ IF ~r.raises /\ Truthy(r.text) /\ has_callback
       THEN /\ TranscriptCallback(r.text)
            /\ mpc' = IF pub'.phase # "idle" THEN "final_publish"
                      ELSE "close"
       ELSE /\ mpc' = "close"
            /\ UNCHANGED <<acc_vars, pub>>
    /\ UNCHANGED pipe_vars
    /\ UNCHANGED <<connections, hpc, sent>>
    /\ UNCHANGED <<msg_vars, stop_event, spc, open_at_stop, server_closed,
                   output_fh>>

MainFinish == \E r \in EngineResults : MainFinishWith(r)

MainClose_leak ==
    /\ mpc = "close"
    /\ mpc' = "done"
    /\ UNCHANGED <<pipe_vars, acc_vars, hub_vars, msg_vars, stop_vars,
                   out_vars>>

\* after the try block of finish: if output_fh and output_file and
\* isinstance(output_file, str): output_fh.close(); the function returns
MainClose ==
    /\ mpc = "close"
    /\ output_fh' = IF output_fh = "open" THEN "closed" ELSE output_fh
    /\ mpc' = "done"
    /\ UNCHANGED <<pipe_vars, acc_vars, hub_vars, msg_vars, stop_vars,
                   written>>

----------------------------------------------------------------------------
(* transcript_server.main: shutdown *)

\* websockets.serve starts handle_client for a connection only while the
\* server is serving
Accept(s) == spc = "serving" /\ Connect(s)

ShutdownHandler_toggle ==
    /\ spc # "exited"
    /\ running' = ~running
    /\ stop_event' = (spc # "starting")
    /\ open_at_stop' = IF stop_event THEN open_at_stop
                       ELSE {s \in Sessions : hpc[s] \in {"open", "pong"}}
    /\ UNCHANGED <<stream_active, audio_queue, unfinished_tasks, next_frame,
                   cb_result, wpc, audio_chunk, fed, accepted, dropped,
                   has_callback>>
    /\ UNCHANGED <<acc_vars, hub_vars, msg_vars>>
    /\ UNCHANGED <<mpc, finished, final_text, spc, server_closed,
                   out_vars>>

\* shutdown_handler(sig, frame): realtime_transcribe.running = False and
\* `if stop_event_ref['stop_event']: stop_event_ref['stop_event'].set()`:
\* while main has not yet created the event there is nothing to set
ShutdownHandler ==
    /\ spc # "exited"
    /\ running' = FALSE
    /\ stop_event' = (spc # "starting")
    /\ open_at_stop' = IF stop_event THEN open_at_stop
                       ELSE {s \in Sessions : hpc[s] \in {"open", "pong"}}
    /\ UNCHANGED <<stream_active, audio_queue, unfinished_tasks, next_frame,
                   cb_result, wpc, audio_chunk, fed, accepted, dropped,
                   has_callback>>
    /\ UNCHANGED <<acc_vars, hub_vars, msg_vars>>
    /\ UNCHANGED <<mpc, finished, final_text, spc, server_closed,
                   out_vars>>

\* main, from the start of the transcription thread on: the event loop and
\* stop_event are created, stop_event_ref is filled in, and
\* main_server_with_stop starts to serve
ServerStart ==
    /\ spc = "starting"
    /\ spc' = "serving"
    /\ UNCHANGED <<pipe_vars, acc_vars, hub_vars, msg_vars>>
    /\ UNCHANGED <<mpc, finished, final_text, stop_event, open_at_stop,
                   server_closed, out_vars>>

\* main_server_with_stop: `await stop_event.wait()` returns and the
\* `async with websockets.serve(...)` block is left: the server stops
\* accepting and starts closing its connections
ServerStop ==
    /\ spc = "serving"
    /\ stop_event
    /\ spc' = "closing"
    /\ UNCHANGED <<pipe_vars, acc_vars, hub_vars, msg_vars>>
    /\ UNCHANGED <<mpc, finished, final_text, stop_event, open_at_stop,
                   server_closed,
                   out_vars>>

\* the closing server closes the connection of session s; its handler ends
\* (ConnectionClosed) through finally: await unregister(websocket)
ServerCloseSession(s) ==
    /\ spc = "closing"
    /\ hpc[s] \in {"greet", "open", "pong"}
    /\ hpc' = [hpc EXCEPT ![s] = "closed"]
    /\ connections' = connections \ {s}
    /\ server_closed' = server_closed \cup {s}
    /\ UNCHANGED <<sent, pub>>
    /\ UNCHANGED <<pipe_vars, acc_vars, msg_vars>>
    /\ UNCHANGED <<mpc, finished, final_text, stop_event, spc, open_at_stop,
                   out_vars>>

\* main returns after the server has closed: the process exits, and the
\* transcription thread and its worker, both daemon threads, end wherever
\* they are
ServerExit ==
    /\ spc = "closing"
    /\ \A s \in Sessions : hpc[s] \notin {"greet", "open", "pong"}
    /\ spc' = "exited"
    /\ wpc' = IF wpc = "exit" THEN "exit" ELSE "killed"
    /\ mpc' = IF mpc = "done" THEN "done" ELSE "killed"
    /\ stream_active' = FALSE
    /\ pub' = IdlePub
    /\ UNCHANGED <<running, audio_queue, unfinished_tasks, next_frame,
                   cb_result, audio_chunk, fed, accepted, dropped,
                   has_callback>>
    /\ UNCHANGED <<connections, hpc, sent>>
    /\ UNCHANGED <<acc_vars, msg_vars>>
    /\ UNCHANGED <<finished, final_text, stop_event, open_at_stop,
                   server_closed,
                   out_vars>>

----------------------------------------------------------------------------
(* Specifications *)

InitCommon ==
    /\ running = TRUE
    /\ stream_active = TRUE
    /\ audio_queue = <<>>
    /\ unfinished_tasks = 0
    /\ next_frame = 1
    /\ cb_result = "none"
    /\ wpc = "loop"
    /\ audio_chunk = 0
    /\ fed = <<>>
    /\ accepted = <<>>
    /\ dropped = {}
    /\ full_transcript = <<>>
    /\ update_count = 0
    /\ broadcasts = 0
    /\ broadcast_text = <<>>
    /\ folded = <<>>
    /\ connections = {}
    /\ hpc = [s \in Sessions |-> "new"]
    /\ sent = [s \in Sessions |-> <<>>]
    /\ pub = IdlePub
    /\ message = [s \in Sessions |-> NoMsg]
    /\ received = [s \in Sessions |-> 0]
    /\ mpc = "stream"
    /\ finished = 0
    /\ final_text = <<>>
    /\ stop_event = FALSE
    /\ open_at_stop = {}
    /\ server_closed = {}
    /\ written = 0

\* realtime_transcribe.main: realtime_transcribe(...) without a callback,
\* with or without --output
Init ==
    /\ InitCommon
    /\ has_callback = FALSE
    /\ output_fh \in {"none", "open"}
    /\ spc = "serving"

Next ==
    \/ AudioCallback(MaxFrames)
    \/ CallbackPut
    \/ SignalStop
    \/ WorkerLoop
    \/ WorkerGet
    \/ WorkerProcess
    \/ WorkerTaskDone

Spec == Init /\ [][Next]_vars

\* transcript_server.main: start_transcription passes transcript_callback
InitServ ==
    /\ InitCommon
    /\ has_callback = TRUE
    /\ output_fh = "none"
    /\ spc = "serving"

NextServ ==
    \/ AudioCallback(MaxServFrames)
    \/ CallbackPut
    \/ SignalStop
    \/ WorkerLoop
    \/ WorkerGet
    \/ WorkerProcess
    \/ WorkerTaskDone
    \/ PublishIter
    \/ PublishWait
    \/ PublishEnd
    \/ \E s \in Sessions : Connect(s)
    \/ \E s \in Sessions : Greet(s)
    \/ \E s \in Sessions : RemoteClose(s)

SpecServ == InitServ /\ [][NextServ]_vars

\* transcript_server with clients that send messages: the pipeline, the
\* publishes and the whole of handle_client
NextSess ==
    \/ AudioCallback(MaxSessFrames)
    \/ CallbackPut
    \/ SignalStop
    \/ WorkerLoop
    \/ WorkerGet
    \/ WorkerProcess
    \/ WorkerTaskDone
    \/ PublishIter
    \/ PublishWait
    \/ PublishEnd
    \/ \E s \in 1..MaxTalkers : Connect(s)
    \/ \E s \in Sessions : Greet(s)
    \/ \E s \in Sessions : RemoteClose(s)
    \/ \E s \in Sessions : Receive(s, MaxMsgs)
    \/ \E s \in Sessions : SendPong(s)

SpecSess == InitServ /\ [][NextSess]_vars

\* transcript_server from start to exit: the pipeline with its
\* transcription thread, the sessions, and the shutdown run by main
NextShut ==
    \/ AudioCallback(MaxSessFrames)
    \/ CallbackPut
    \/ ShutdownHandler
    \/ WorkerLoop
    \/ WorkerGet
    \/ WorkerProcess
    \/ WorkerTaskDone
    \/ PublishIter
    \/ PublishWait
    \/ PublishEnd
    \/ StreamExit
    \/ StreamError
    \/ MainJoin
    \/ MainFinish
    \/ MainClose
    \/ \E s \in 1..MaxTalkers : Accept(s)
    \/ \E s \in Sessions : Greet(s)
    \/ \E s \in Sessions : RemoteClose(s)
    \/ ServerStop
    \/ \E s \in Sessions : ServerCloseSession(s)
    \/ ServerExit

SpecShut == InitServ /\ [][NextShut]_vars

\* transcript_server.main right after start_transcription: the signal
\* handler is installed, the transcription thread runs, stop_event is not
\* yet created
InitStart ==
    /\ InitCommon
    /\ has_callback = TRUE
    /\ output_fh = "none"
    /\ spc = "starting"

\* transcript_server from the start of main to exit, with clients that
\* stay until the server closes them and a device that does not fail
NextStart ==
    \/ AudioCallback(MaxSessFrames)
    \/ CallbackPut
    \/ ShutdownHandler
    \/ ServerStart
    \/ WorkerLoop
    \/ WorkerGet
    \/ WorkerProcess
    \/ WorkerTaskDone
    \/ PublishIter
    \/ PublishWait
    \/ PublishEnd
    \/ StreamExit
    \/ MainJoin
    \/ MainFinish
    \/ MainClose
    \/ \E s \in 1..MaxTalkers : Accept(s)
    \/ \E s \in Sessions : Greet(s)
    \/ ServerStop
    \/ \E s \in Sessions : ServerCloseSession(s)
    \/ ServerExit

SpecStart == InitStart /\ [][NextStart]_vars

\* realtime_transcribe.main from start to return: the callback, the signal
\* handler, the worker and the thread that called realtime_transcribe
NextStop ==
    \/ AudioCallback(MaxStopFrames)
    \/ CallbackPut
    \/ SignalStop
    \/ WorkerLoop
    \/ WorkerGet
    \/ WorkerProcess
    \/ WorkerTaskDone
    \/ StreamExit
    \/ StreamError
    \/ MainJoin
    \/ MainFinish
    \/ MainClose

\* realtime_transcribe(...) as its signature allows it to be called: with
\* or without transcript_callback, with or without output_file
InitStop ==
    /\ InitCommon
    /\ has_callback \in BOOLEAN
    /\ output_fh \in {"none", "open"}
    /\ spc = "serving"

SpecStop == InitStop /\ [][NextStop]_vars

\* the steps of the worker thread, publishes included
WorkerStep ==
    \/ WorkerLoop
    \/ WorkerGet
    \/ WorkerProcess
    \/ WorkerTaskDone
    \/ PublishIter
    \/ PublishWait
    \/ PublishEnd

\* the steps the event loop takes on its own in a handler: the sends
HandlerStep == \E s \in Sessions : Greet(s) \/ SendPong(s)

\* SpecSess with the scheduling the program has: the worker thread and the
\* event loop each keep running; nothing is assumed of the device, the
\* signal or the peers
SpecSessFair == SpecSess /\ WF_vars(WorkerStep) /\ WF_vars(HandlerStep)

\* every span text of length at most MaxSpanLen, and None
Spans == TextsUpTo(MaxSpanLen) \cup {NoneText}

\* a direct call transcript_callback(start, end, text) with no client
\* connected
FoldStep ==
    /\ Len(folded) < MaxSpans
    /\ \E text \in Spans : TranscriptCallback(text)
    /\ UNCHANGED <<connections, hpc, sent>>
    /\ UNCHANGED pipe_vars
    /\ UNCHANGED ext_vars

NextFold == FoldStep

SpecFold == InitServ /\ [][NextFold]_vars

----------------------------------------------------------------------------
(* Properties of the ingest queue, checked under Spec *)

\* C1: whatever the interleaving of audio callbacks and worker dequeues,
\* audio_queue never holds more than maxsize frames.
C1_QueueBounded == Len(audio_queue) <= maxsize

\* the queue is at capacity while the worker holds a frame it dequeued
C1_Witness == Len(audio_queue) = maxsize /\ wpc = "process"

\* a step of audio_callback that found running set and finds the queue
\* full
CallbackOnFull ==
    /\ cb_result = "pending"
    /\ next_frame' = next_frame + 1
    /\ Len(audio_queue) >= maxsize

\* C2: a callback that finds the queue full discards the incoming frame: the
\* queue keeps its contents and order, nothing more is owed to task_done,
\* and the callback returns normally, the stream going on.
C2_DropNewest ==
    [][CallbackOnFull =>
          /\ audio_queue' = audio_queue
          /\ unfinished_tasks' = unfinished_tasks
          /\ (next_frame \in dropped') /\ accepted' = accepted
          /\ cb_result' = "continue"
          /\ stream_active' = stream_active]_vars

\* the latest callback found the queue full and dropped its frame
C2_Witness ==
    /\ next_frame > 1
    /\ (next_frame - 1) \in dropped
    /\ Len(audio_queue) = maxsize
    /\ cb_result = "continue"

\* C3: the frames fed to the engine are, in order, the first frames that
\* were accepted into the queue: no accepted frame is skipped or reordered,
\* whether or not frames were dropped in between.
C3_FedInOrder == IsPrefix(fed, accepted)

\* a frame accepted after a dropped one has been fed
C3_Witness ==
    \E d \in dropped : \E i \in 1..Len(fed) : fed[i] > d /\ i > 1

----------------------------------------------------------------------------
(* Properties of the accumulator, checked under SpecFold *)

\* a span text that is None, empty or whitespace only
Blank(text) ==
    text = NoneText \/ \A i \in 1..Len(text) : IsSpace(text[i])

\* the text of a span with leading and trailing whitespace removed
Stripped(text) == IF text = NoneText THEN <<>> ELSE strip(text)

\* the texts of xs, each followed by one space
RECURSIVE SpaceAfterEach(_)
SpaceAfterEach(xs) ==
    IF xs = <<>> THEN <<>>
    ELSE Head(xs) \o Space \o SpaceAfterEach(Tail(xs))

\* the texts of xs joined by exactly one space
JoinedBySpace(xs) ==
    LET t == SpaceAfterEach(xs) IN
    IF t = <<>> THEN <<>> ELSE SubSeq(t, 1, Len(t) - 1)

\* the stripped texts of the non-blank spans of xs, in order
NonBlankStripped(xs) ==
    LET RECURSIVE keep(_)
        keep(ys) == IF ys = <<>> THEN <<>>
                    ELSE IF Blank(Head(ys)) THEN keep(Tail(ys))
                    ELSE <<Stripped(Head(ys))>> \o keep(Tail(ys))
    IN keep(xs)

\* a step that is one call of transcript_callback
CallbackStep == Len(folded') = Len(folded) + 1

\* C4: full_transcript only grows at its end: each value is a prefix of
\* the next, so every earlier value is a prefix of every later one.
C4_PrefixMonotone ==
    [][/\ IsPrefix(full_transcript, full_transcript')
       /\ Len(full_transcript) <= Len(full_transcript')]_vars

\* the transcript has been extended twice
C4_Witness == update_count >= 2 /\ Len(full_transcript) >= 3

\* C5: a call with a None, empty or whitespace-only text changes neither
\* full_transcript nor the update counter and starts no broadcast.
C5_BlankIsNoOp ==
    [][(CallbackStep /\ Blank(folded'[Len(folded')])) =>
          /\ full_transcript' = full_transcript
          /\ update_count' = update_count
          /\ broadcasts' = broadcasts
          /\ broadcast_text' = broadcast_text
          /\ pub' = pub]_vars

\* a whitespace-only span was folded after and before non-blank spans
C5_Witness ==
    /\ Len(folded) = 3
    /\ folded[2] = Space
    /\ ~Blank(folded[1]) /\ ~Blank(folded[3])

\* C6: from the empty transcript, after any sequence of calls the
\* transcript is the stripped texts of the non-blank spans, in order,
\* joined by exactly one space.
C6_JoinedSpans == full_transcript = JoinedBySpace(NonBlankStripped(folded))

\* spans "a", "aa", "" in this order gave "a aa"
C6_Witness ==
    /\ folded = << <<"a">>, <<"a", "a">>, <<>> >>
    /\ full_transcript = <<"a", " ", "a", "a">>

----------------------------------------------------------------------------
(* Properties of the broadcast, checked under SpecServ *)

\* the texts of the transcript messages written to session s, in order
TranscriptTexts(s) ==
    LET IsTranscript(m) == m.type = "transcript"
        ms == SelectSeq(sent[s], IsTranscript)
    IN  [i \in 1..Len(ms) |-> ms[i].text]

\* a step that runs the loop over send_tasks
PublishWaitStep == pub.phase = "wait" /\ pub'.phase = "remove"

\* a step that ends broadcast_full_transcript
PublishEndStep == pub.phase = "remove" /\ pub'.phase = "idle"

\* C7: every step that changes full_transcript calls
\* broadcast_full_transcript exactly once, with the whole transcript as it
\* is after the step (and that text is the one put into the message); no
\* other step calls it.
C7_OneBroadcastPerFold ==
    [][/\ (full_transcript' # full_transcript) =>
             /\ broadcasts' = broadcasts + 1
             /\ broadcast_text' = full_transcript'
             /\ connections # {} =>
                   /\ pub'.phase = "iter"
                   /\ pub'.text = full_transcript'
       /\ (full_transcript' = full_transcript) =>
             broadcasts' = broadcasts]_vars

\* the second fold's broadcast is under way with the two-span transcript
C7_Witness ==
    /\ pub.phase = "wait"
    /\ update_count = 2
    /\ pub.text = <<"a", " ", "a">>

\* C8: the transcript texts written to one session come in order: each is
\* a proper extension of every text written to that session before it.
C8_OrderedPerSubscriber ==
    \A s \in Sessions :
       LET T == TranscriptTexts(s) IN
       \A i, j \in 1..Len(T) :
          i < j => IsPrefix(T[i], T[j]) /\ Len(T[i]) < Len(T[j])

\* a session was sent two transcripts, another one missed the first
C8_Witness ==
    \E s, r \in Sessions :
       /\ Len(TranscriptTexts(s)) = 2
       /\ Len(TranscriptTexts(r)) = 1
       /\ r \in connections

\* a step that ends broadcast_full_transcript, by its return or by the
\* error of the loop over connections
PublishOverStep == pub.phase # "idle" /\ pub'.phase = "idle"

\* C9: a publish that starts with two sessions registered ends with each of
\* them either sent the message (the responsive S1) or out of connections
\* (the never-accepting S2). In detail: when the sends are awaited, a prompt
\* S1 is sent the message and a never-accepting S2 is put in the set to
\* remove; the end of the publish removes exactly the sessions of that set,
\* so S2 leaves connections and S1 stays; a session that has left
\* connections never comes back, and a publish sends only to sessions that
\* were in connections while it ran.
C9_PublishServesBoth ==
    /\ [][PublishOverStep =>
             \A s1 \in pub.targets : \A s2 \in pub.targets \ {s1} :
                s1 \in pub.delivered \/ s1 \notin connections']_vars
    /\ [][PublishWaitStep =>
             \A s1, s2 \in pub.targets :
                (Prompt(pub'.fate[s1]) /\ pub'.fate[s2].kind = "never") =>
                   /\ sent'[s1] = Append(sent[s1], Transcript(pub.text))
                   /\ s1 \in pub'.delivered
                   /\ s1 \notin pub'.disconnected
                   /\ s2 \in pub'.disconnected]_vars
    /\ [][PublishEndStep =>
             \A s \in pub.targets :
                /\ s \in pub.disconnected => s \notin connections'
                /\ (s \notin pub.disconnected /\ s \in connections) =>
                      s \in connections']_vars
    /\ [][\A s \in Sessions :
             (hpc[s] # "new" /\ s \notin connections) =>
                s \notin connections']_vars
    /\ [][/\ (pub.phase = "idle" /\ pub'.phase = "iter") =>
                pub'.targets = connections'
          /\ (pub.phase = "iter" /\ pub'.phase = "wait") =>
                pub'.targets \subseteq (pub.targets \cup connections)]_vars

\* S2 was removed by the first publish while its handler still runs, and
\* the second publish went to S1 only and reached it
C9_Witness ==
    /\ pub.phase = "remove"
    /\ update_count = 2
    /\ pub.targets = {1}
    /\ 1 \in pub.delivered
    /\ Len(TranscriptTexts(1)) = 2
    /\ hpc[2] = "open" /\ 2 \notin connections

\* C10: within one publish every prompt peer is sent the message whatever
\* the other peers do, the loop over the sends takes at most one timeout
\* per connection, neither step of the publish can block, and the worker
\* waits exactly as long as the publish lasts.
C10_PublishBounded ==
    /\ pub.phase = "remove" =>
          /\ \A s \in pub.targets :
                Prompt(pub.fate[s]) => s \in pub.delivered
          /\ pub.elapsed <= Cardinality(pub.targets) * SendTimeoutMs
    /\ pub.phase = "iter" => ENABLED PublishIter
    /\ pub.phase = "wait" => ENABLED PublishWait
    /\ pub.phase = "remove" => ENABLED PublishEnd
    /\ (wpc = "publishing") <=> (pub.phase # "idle")

\* a publish to a never-accepting peer and a prompt one has used one timeout
\* and delivered to the prompt one
C10_Witness ==
    /\ pub.phase = "remove"
    /\ \E s1, s2 \in pub.targets :
          /\ Prompt(pub.fate[s1]) /\ s1 \in pub.delivered
          /\ pub.fate[s2].kind = "never" /\ s2 \in pub.disconnected
    /\ pub.elapsed = SendTimeoutMs

\* C11: one publish, however many connections it serves and however many of
\* them never accept, is over within one send timeout.
C11_SingleTimeout ==
    pub.phase = "remove" => pub.elapsed <= SendTimeoutMs

\* a step in which transcript_callback calls broadcast_full_transcript
PublishCallStep == broadcasts' = broadcasts + 1

\* C12: a call of broadcast_full_transcript made while connections is empty
\* returns at once: no publish is in progress after it, nothing is written
\* to any session, connections stays empty, full_transcript is the text the
\* call was given, and the caller goes on: the worker to task_done, the
\* final callback to the end of realtime_transcribe.
C12_EmptyPublishNoOp ==
    [][(PublishCallStep /\ connections = {}) =>
          /\ pub' = IdlePub
          /\ sent' = sent
          /\ connections' = {}
          /\ full_transcript' = broadcast_text'
          /\ IF mpc = "finish" THEN mpc' = "close"
             ELSE wpc' = "task_done"]_vars

\* a fold was published while no session had ever connected
C12_Witness ==
    /\ broadcasts = 1
    /\ \A s \in Sessions : hpc[s] = "new"
    /\ full_transcript = <<"a">>
    /\ wpc = "task_done"

----------------------------------------------------------------------------
(* Properties of the sessions, checked under SpecSess *)

Ping == [json |-> "object", type |-> "ping"]
OtherType == [json |-> "object", type |-> "other"]

\* a step in which session s receives a message
ReceiveStep(s) == received'[s] = received[s] + 1

\* the pongs written to session s
Pongs(s) == LET IsPong(m) == m.type = "pong"
            IN  Len(SelectSeq(sent[s], IsPong))

\* C13: a ping received by an open session makes its handler send a pong,
\* whatever the state of the publish and whether or not the session is in
\* connections; the pending reply is given up by no other step; the send
\* writes exactly one pong to that session, or fails and ends the handler;
\* and no pong is written at any other moment.
C13_OnePongPerPing ==
    [][\A s \in Sessions :
          /\ (ReceiveStep(s) /\ message'[s] = Ping) => hpc'[s] = "pong"
          /\ hpc[s] = "pong" =>
                \/ hpc'[s] = "pong" /\ Pongs(s)' = Pongs(s)
                \/ hpc'[s] = "open" /\ Pongs(s)' = Pongs(s) + 1
                \/ hpc'[s] = "closed"
          /\ (hpc[s] # "pong" /\ hpc'[s] # "closed") =>
                Pongs(s)' = Pongs(s)]_vars

\* a session evicted by a publish has answered two pings, one of them
\* while the next publish was in progress
C13_Witness ==
    \E s \in Sessions :
       /\ hpc[s] = "open"
       /\ s \notin connections
       /\ Pongs(s) = 2
       /\ broadcasts >= 1

\* C14: a JSON object whose type is not ping is ignored: the step that
\* receives it writes nothing to any session, leaves the session open and
\* connections as it was, and does not touch the transcript.
C14_OtherTypeIgnored ==
    [][\A s \in Sessions :
          (ReceiveStep(s) /\ message'[s] = OtherType) =>
             /\ sent' = sent
             /\ hpc' = hpc
             /\ hpc'[s] = "open"
             /\ connections' = connections
             /\ full_transcript' = full_transcript
             /\ pub' = pub]_vars

\* a registered open session has just received a message of another type
C14_Witness ==
    \E s \in connections :
       /\ hpc[s] = "open"
       /\ message[s] = OtherType
       /\ sent[s] = <<Greeting>>

\* the positions at which handle_client is running
Running == {"greet", "open", "pong"}

\* the greetings written to session s
Greetings(s) == LET IsGreeting(m) == m.type = "connected"
                IN  Len(SelectSeq(sent[s], IsGreeting))

\* C15: the step that accepts a session registers it, before anything is
\* written to it; a session that is open has been sent exactly one
\* greeting, a session not yet greeted none; and every pong written to a
\* session comes after its greeting.
C15_OneGreetingAfterRegister ==
    /\ \A s \in Sessions :
          /\ hpc[s] \in {"open", "pong"} => Greetings(s) = 1
          /\ hpc[s] \in {"new", "greet"} =>
                Greetings(s) = 0 /\ Pongs(s) = 0
          /\ \A i, j \in 1..Len(sent[s]) :
                (sent[s][i].type = "pong" /\ sent[s][j].type = "connected")
                   => j < i
    /\ \A s \in Sessions : hpc[s] = "new" => s \notin connections
    /\ \A s \in Sessions :
          (hpc[s] = "new" /\ ENABLED Connect(s)) =>
             ENABLED (Connect(s) /\ s \in connections'
                         /\ hpc'[s] = "greet" /\ sent'[s] = <<>>)

\* a session was greeted and then answered a ping
C15_Witness ==
    \E s \in connections : sent[s] = <<Greeting, Pong>>

\* C16: connections holds only sessions whose handler is running: every
\* way a handler ends (peer close, failed greeting, failed pong, an error in
\* the loop) takes the session out of the set.
C16_OnlyRunningRegistered ==
    \A s \in connections : hpc[s] \in Running

\* a handler that had received a message has ended, after a publish, and
\* connections is empty
C16_Witness ==
    /\ \E s \in Sessions : hpc[s] = "closed" /\ received[s] = 1
    /\ connections = {}
    /\ broadcasts = 1

\* session s was taken out of connections while its handler runs
Evicted(s) == hpc[s] \in Running /\ s \notin connections

\* C17: a session evicted by a publish is closed in the end, at the latest
\* when the server is told to stop.
C17_EvictedIsClosed ==
    \A s \in Sessions : Evicted(s) ~> (hpc[s] = "closed" \/ ~running)

\* C30: whatever message an open session receives (a ping, another type,
\* text that is not JSON, JSON that is not an object), the step that
\* handles it neither ends the handler nor takes the session out of
\* connections.
C30_MessageNeverEndsSession ==
    [][\A s \in Sessions :
          ReceiveStep(s) =>
             /\ hpc'[s] \in {"open", "pong"}
             /\ s \in connections => s \in connections']_vars

----------------------------------------------------------------------------
(* Properties of the shutdown, checked under SpecShut *)

\* a step that calls online.finish()
FinishStep == finished' = finished + 1

\* C18: when online.finish() is called the queue is empty, every frame the
\* callback stored has been fed to the engine, and the worker is between
\* frames: the span of the last frame has been folded and published and
\* its task_done is made.
C18_DrainedBeforeFinish ==
    [][FinishStep =>
          /\ audio_queue = <<>>
          /\ unfinished_tasks = 0
          /\ fed = accepted
          /\ wpc \in {"loop", "get", "exit"}
          /\ pub.phase = "idle"]_vars

\* after a stop request, finish was called once the one frame stored had
\* been fed and its span folded
C18_Witness ==
    /\ finished = 1
    /\ ~running
    /\ accepted = <<1>>
    /\ fed = <<1>>
    /\ update_count >= 1

\* C19: when online.finish() returns text, one more broadcast is made,
\* its text ends with that text, and it is made while the sessions that
\* were open at the stop request are not yet closed by the server: those
\* still registered are among its targets.
C19_FinalPublishReachesOpen ==
    [][(FinishStep /\ Truthy(final_text')) =>
          /\ broadcasts' = broadcasts + 1
          /\ IsSuffix(final_text', broadcast_text')
          /\ \A s \in open_at_stop :
                /\ s \notin server_closed
                /\ s \in connections => s \in pub'.targets]_vars

\* C20: the server closes no session and the process does not exit before
\* the queue is empty, online.finish() has been called and the
\* transcription thread is through with its final callback.
C20_CloseAfterFinish ==
    (server_closed # {} \/ spc = "exited") =>
       /\ audio_queue = <<>>
       /\ finished >= 1
       /\ mpc = "done"

----------------------------------------------------------------------------
(* Properties of the stop of the pipeline, checked under SpecStop *)

\* C21: no frame is lost in the shutdown: once the worker has left its
\* loop, every frame the callback stored has been fed to the engine, also
\* the frame of a callback that had read the stop flag before it was set.
C21_AcceptedIsFed ==
    (wpc = "exit" /\ cb_result # "pending") =>
       /\ audio_queue = <<>>
       /\ fed = accepted

\* the thread in audio_queue.join() can never go on: the worker has
\* returned and a frame is still counted as unfinished
BlockedInJoin == mpc = "join" /\ wpc = "exit" /\ unfinished_tasks > 0

\* C22: after a stop signal the shutdown completes: no interleaving of
\* callback, worker and stop signal leaves the caller blocked in
\* audio_queue.join() with nothing left that could let it return.
C22_ShutdownCompletes == ~BlockedInJoin

\* online.finish() has been called at most once
FinishedAtMostOnce == finished <= 1

\* online.finish() has been called or the caller can still get to it
FinishReachable ==
    finished = 1 \/ mpc = "stream" \/ wpc # "exit" \/ cb_result = "pending"
       \/ ENABLED MainJoin \/ ENABLED MainFinish

\* C23: online.finish() is invoked exactly once in the life of a pipeline:
\* never twice, and no pipeline that was started ends up in a state where
\* it was not invoked and cannot be invoked any more.
C23_FinishExactlyOnce == FinishedAtMostOnce /\ FinishReachable

\* a step in which the capture stream invokes audio_callback
CallbackBegins ==
    /\ cb_result # "pending"
    /\ \/ cb_result' = "pending"
       \/ cb_result' = "stop" /\ next_frame' = next_frame + 1

\* C25: an invocation of audio_callback that begins with the stop flag set
\* stores nothing and ends the stream (CallbackStop / paComplete), and
\* after that no frame is stored any more.
C25_NoFrameAfterStop ==
    [][/\ (CallbackBegins /\ ~running) =>
             /\ cb_result' = "stop"
             /\ ~stream_active'
             /\ audio_queue' = audio_queue
             /\ unfinished_tasks' = unfinished_tasks
             /\ accepted' = accepted
       /\ cb_result = "stop" =>
             (accepted' = accepted /\ cb_result' = "stop")]_vars

\* the callback stored two frames, then was invoked with the flag set and
\* ended the stream
C25_Witness ==
    /\ cb_result = "stop"
    /\ ~running
    /\ ~stream_active
    /\ accepted = <<1, 2>>
    /\ next_frame = 4

\* the caller leaves the stream block while the stop flag is still True:
\* only an exception of the device does that
DeviceError == mpc = "stream" /\ mpc' = "join" /\ running

\* C27: an error of the audio device, at open or while the stream runs, is
\* fatal: with it the pipeline leaves Listening (the stop flag is set), so
\* that the worker ends its loop.
C27_DeviceErrorIsFatal == [][DeviceError => ~running']_vars

\* how far the caller of realtime_transcribe has come
Rank(pc) == CASE pc = "stream" -> 1
              [] pc = "join" -> 2
              [] pc = "finish" -> 3
              [] pc = "final_publish" -> 4
              [] pc = "close" -> 5
              [] OTHER -> 6

\* realtime_transcribe has returned
Stopped == mpc = "done"

\* C29: the pipeline only moves forward: the stop flag, once False, is
\* never True again, the caller never goes back to an earlier stage, and
\* the step that makes the pipeline Stopped is taken with the queue empty
\* and leaves online.finish() called.
C29_ForwardOnly ==
    [][/\ ~running => ~running'
       /\ Rank(mpc) <= Rank(mpc')
       /\ (~Stopped /\ Stopped') =>
             /\ audio_queue = <<>>
             /\ audio_queue' = <<>>
             /\ unfinished_tasks = 0
             /\ finished' = 1
       /\ Stopped => (Stopped' /\ audio_queue' = <<>>)]_vars

\* the pipeline was stopped by the signal and has returned after feeding
\* the two frames it had stored
C29_Witness ==
    /\ Stopped
    /\ ~running
    /\ finished = 1
    /\ fed = <<1, 2>>

----------------------------------------------------------------------------
(* The worker and an engine that fails, checked under SpecServ *)

\* the step makes no fold and no publish and goes on to task_done
SkipsFrame ==
    /\ full_transcript' = full_transcript
    /\ update_count' = update_count
    /\ broadcasts' = broadcasts
    /\ pub' = pub
    /\ sent' = sent
    /\ audio_queue' = audio_queue
    /\ unfinished_tasks' = unfinished_tasks
    /\ wpc' = "task_done"

\* C26: when the engine raises for a frame, the worker catches the error:
\* the frame is neither folded nor published, its task_done is made, and
\* the worker is back at the head of its loop for the frames that follow.
C26_EngineErrorSkipsFrame ==
    /\ wpc = "process" =>
          /\ ENABLED WorkerProcessWith(Raise)
          /\ ~ENABLED (WorkerProcessWith(Raise) /\ ~SkipsFrame)
    /\ wpc = "task_done" =>
          /\ unfinished_tasks > 0
          /\ ENABLED (WorkerTaskDone /\ wpc' = "loop"
                         /\ unfinished_tasks' = unfinished_tasks - 1)

\* the engine can raise for frame 2 after the span of frame 1 was folded
\* and published, and the step skips the frame
C26_Witness ==
    /\ wpc = "process"
    /\ audio_chunk = 2
    /\ update_count = 1
    /\ broadcasts = 1
    /\ ENABLED (WorkerProcessWith(Raise) /\ SkipsFrame)

----------------------------------------------------------------------------
(* Further properties of the shutdown, checked under SpecShut *)

\* a stop has been requested and the transcription thread has not yet
\* returned
Draining == ~running /\ stop_event /\ mpc \in {"stream", "join", "finish"}

\* C24: a termination request that arrives while the pipeline is draining
\* changes nothing: neither shutdown_handler nor signal_handler has a step
\* from a draining state that changes any variable, so it can start no
\* second finish, publish or session close.
C24_SecondStopIsNoOp ==
    Draining =>
       /\ ~ENABLED (ShutdownHandler /\ vars' # vars)
       /\ ~ENABLED (SignalStop /\ vars' # vars)

\* a second request can arrive while a frame is still queued and a session
\* is open
C24_Witness ==
    /\ Draining
    /\ ENABLED ShutdownHandler
    /\ audio_queue # <<>>
    /\ \E s \in connections : hpc[s] = "open"

\* the worker holds a frame: it is in the engine or in transcript_callback
WorkerInFrame == wpc \in {"process", "publishing", "task_done"}

\* the caller of realtime_transcribe is past audio_queue.join(): it is in
\* online.finish() or in the final transcript_callback, or has returned
CallerPastJoin == mpc \in {"finish", "final_publish", "close", "done"}

\* C28: full_transcript has one writer at a time: the worker is never in a
\* frame while the caller is in finish() or its final callback, and once
\* the caller is past join no frame is left or can still arrive that the
\* worker would fold, so the final fold follows every per-frame fold.
C28_OneWriter ==
    CallerPastJoin =>
       /\ ~WorkerInFrame
       /\ audio_queue = <<>>
       /\ unfinished_tasks = 0
       /\ cb_result # "pending"
       /\ ~stream_active

\* the span of a frame was folded by the worker and then the final span by
\* the caller
C28_Witness ==
    /\ finished = 1
    /\ fed = <<1>>
    /\ update_count = 2
    /\ Truthy(final_text)

----------------------------------------------------------------------------
(* Publishes and concurrent sessions, checked under SpecServ *)

\* C31: a publish that has started its loop over connections is not ended
\* by a session that connects or disconnects meanwhile: it goes on to
\* await its sends, and every session that was registered at its start and
\* still is when the loop ends is among those it sends to.
C31_SetChangeNeverAborts ==
    [][pub.phase = "iter" =>
          /\ pub'.phase # "idle"
          /\ pub'.phase = "wait" =>
                (pub.targets \cap connections) \subseteq pub'.targets]_vars

\* C36: the greeting is the first message written to every session: no
\* transcript is written to a session that has not been greeted, also when
\* a publish runs between its registration and its greeting.
C36_GreetingFirst ==
    \A s \in Sessions :
       /\ sent[s] # <<>> => sent[s][1] = Greeting
       /\ hpc[s] = "greet" => sent[s] = <<>>

\* the transcript a fresh accumulator holds after the spans of `spans`
\* have been given to it in order, with nobody connected
RECURSIVE Replay(_)
Replay(spans) ==
    IF spans = <<>> THEN <<>>
    ELSE LET before == Replay(SubSeq(spans, 1, Len(spans) - 1))
             new_text == NewText(spans[Len(spans)])
         IN  IF new_text = <<>> THEN before
             ELSE Accumulate(before, new_text)

\* C38: the transcript is a function of the sequence of spans alone: in
\* every state, whatever sessions have connected, left or been evicted and
\* whatever became of the publishes, it is what a fresh accumulator gives
\* for the spans folded so far; two runs over the same spans end with the
\* same text.
C38_TranscriptDeterminate == full_transcript = Replay(folded)

\* two spans were folded; one session was sent the transcript and another
\* was evicted by a publish
C38_Witness ==
    /\ Len(folded) = 2
    /\ full_transcript = <<"a", " ", "a">>
    /\ \E s \in Sessions : Evicted(s)
    /\ \E s \in Sessions : TranscriptTexts(s) # <<>>

----------------------------------------------------------------------------
(* Errors in the callback and in the cleanup, checked under SpecShut *)

\* broadcast_full_transcript raises out of transcript_callback
CallbackRaises == pub.phase = "iter" /\ pub'.phase = "idle" /\ spc' = spc

\* C32: when transcript_callback raises for a span (its publish fails),
\* the caller catches the exception: full_transcript keeps the text just
\* folded, nothing is taken from or put back into the queue, and the worker
\* goes on to task_done for the frame (the final callback to the end of
\* realtime_transcribe).
C32_CallbackFailureContained ==
    [][CallbackRaises =>
          /\ full_transcript' = full_transcript
          /\ Truthy(full_transcript)
          /\ IsSuffix(NewText(folded[Len(folded)]), full_transcript')
          /\ update_count' = update_count
          /\ audio_queue' = audio_queue
          /\ unfinished_tasks' = unfinished_tasks
          /\ IF mpc = "final_publish"
             THEN mpc' = "close" /\ wpc' = wpc
             ELSE /\ wpc = "publishing"
                  /\ wpc' = "task_done"
                  /\ unfinished_tasks > 0
                  /\ mpc' = mpc]_vars

\* the worker is in the publish of a frame's span and the set has changed
\* size under its iteration: the publish is about to raise
C32_Witness ==
    /\ wpc = "publishing"
    /\ pub.phase = "iter"
    /\ Cardinality(connections) # Cardinality(pub.targets)
    /\ fed = <<1>>
    /\ ENABLED (PublishIter /\ pub'.phase = "idle" /\ wpc' = "task_done")

\* C35: once online.finish() has been called, no frame is fed to the
\* engine, none is stored or taken from the queue and nothing is folded,
\* also when the stream ended on an error with the stop flag unset and the
\* worker still goes round its loop.
C35_NothingFedAfterFinish ==
    [][finished >= 1 =>
          /\ fed' = fed
          /\ accepted' = accepted
          /\ audio_queue' = audio_queue
          /\ audio_queue = <<>>
          /\ update_count' = update_count
          /\ full_transcript' = full_transcript]_vars

\* finish() was called after a device error: the stop flag is unset, the
\* worker still polls the queue, and the frame stored before was fed
C35_Witness ==
    /\ finished = 1
    /\ running
    /\ wpc = "get"
    /\ fed = <<1>>
    /\ mpc = "done"

----------------------------------------------------------------------------
(* Cleanup and output of the stand-alone pipeline, checked under SpecStop *)

\* the step goes on to the close of the output file, with nothing folded,
\* published or written
GoesOnToClose ==
    /\ mpc' = "close"
    /\ written' = written
    /\ output_fh' = output_fh
    /\ full_transcript' = full_transcript
    /\ pub' = pub

\* C33: an exception of online.finish() is caught: the caller goes on to
\* the close of the output file as after any finish, the file the pipeline
\* opened is closed there, and the function returns; it has never returned
\* with the file still open.
C33_CleanupErrorContained ==
    /\ mpc = "finish" =>
          /\ ENABLED MainFinishWith(Raise)
          /\ ~ENABLED (MainFinishWith(Raise) /\ ~GoesOnToClose)
    /\ mpc = "close" =>
          /\ ENABLED MainClose
          /\ ~ENABLED (MainClose /\ ~(mpc' = "done" /\ output_fh' # "open"))
    /\ mpc \notin {"stream", "join", "finish", "close"} =>
          (mpc = "done" /\ output_fh # "open")

\* finish() can raise after two records were written to the open file
C33_Witness ==
    /\ mpc = "finish"
    /\ output_fh = "open"
    /\ written = 2
    /\ ENABLED (MainFinishWith(Raise) /\ GoesOnToClose)

----------------------------------------------------------------------------
(* The start of the server, checked under SpecStart *)

\* C34: a termination request handled at any moment after the handler is
\* installed stops the server: once a request has been handled, the server
\* that waits on stop_event finds it set, so that the wait ends and the
\* sessions are closed.
C34_RequestStopsServer == (~running /\ spc = "serving") => stop_event

\* the engine returns a span with no text
Empty == [raises |-> FALSE, text |-> <<>>]

\* no call of transcript_callback and no record
NoCallbackNoRecord == folded' = folded /\ written' = written

\* C37: a span with empty text, returned for a frame or by finish(), is
\* passed to no callback, written to no output and published to nobody:
\* the worker goes on to task_done, the caller to the close of the file.
C37_EmptySpanNoEffect ==
    /\ wpc = "process" =>
          /\ ENABLED WorkerProcessWith(Empty)
          /\ ~ENABLED (WorkerProcessWith(Empty)
                          /\ ~(SkipsFrame /\ NoCallbackNoRecord))
    /\ mpc = "finish" =>
          /\ ENABLED MainFinishWith(Empty)
          /\ ~ENABLED (MainFinishWith(Empty)
                          /\ ~(/\ GoesOnToClose
                               /\ NoCallbackNoRecord
                               /\ update_count' = update_count
                               /\ broadcasts' = broadcasts))

\* with a callback and an open output file, a span with text was folded
\* and written for frame 1, and the engine can return an empty span for
\* frame 2
C37_Witness ==
    /\ has_callback
    /\ output_fh = "open"
    /\ wpc = "process"
    /\ audio_chunk = 2
    /\ written = 1
    /\ update_count = 1
    /\ ENABLED (WorkerProcessWith(Empty) /\ SkipsFrame /\ NoCallbackNoRecord)

====
